---- MODULE Spec2Model ----
(***************************************************************************)
(* Model of the 3D Gaussian splatting demo (src/index.ts, src/shader.wgsl).*)
(*                                                                         *)
(* Numbers.  Every quantity the sampler computes is kept exactly: vertex   *)
(* coordinates are small integers, a Math.random() result is a multiple of *)
(* 1/RandDen (face draw) or 1/UDen (barycentric draws) and is carried as   *)
(* its numerator, and a position is carried as numerators over UDen.  A    *)
(* number stored in a splat is a record [num, den, fmt]: the value num/den *)
(* held exactly ("exact"), as the nearest 64-bit float ("f64") or as the   *)
(* nearest 32-bit float ("f32").  A rotation element carries the component *)
(* of its axis up to the positive normalisation factor 1/len that lookAt   *)
(* applies to the whole axis, so directions are exact.                     *)
(***************************************************************************)
EXTENDS Integers, Sequences, FiniteSets, TLC

VARIABLES pc, text, model, numGaussians, areas, i, index, rnd, u, v,
          gaussians, gaussiansBuffer, queue, ctx

vars == <<pc, text, model, numGaussians, areas, i, index, rnd, u, v,
          gaussians, gaussiansBuffer, queue, ctx>>

(***************************************************************************)
(* Bounds                                                                  *)
(***************************************************************************)
NumGaussians == 1   \* splats requested by onLoad (100000 in the source)
MaxFaces == 2       \* "f" lines in the mesh file
RandDen == 2        \* Math.random() in the face draw is k/RandDen
UDen == 4           \* Math.random() in the barycentric draws is k/UDen
MaxWeight == 2      \* largest weight handed to randomIndexWithProbability alone
MaxFrames == 2      \* frames rendered

(***************************************************************************)
(* gl-matrix vec3 helpers on integer triples                               *)
(***************************************************************************)
Sub(a, b) == <<a[1] - b[1], a[2] - b[2], a[3] - b[3]>>

Add(a, b) == <<a[1] + b[1], a[2] + b[2], a[3] + b[3]>>

Scale(a, s) == <<a[1] * s, a[2] * s, a[3] * s>>

Dot(a, b) == a[1] * b[1] + a[2] * b[2] + a[3] * b[3]

Cross(a, b) == <<a[2] * b[3] - a[3] * b[2],
                 a[3] * b[1] - a[1] * b[3],
                 a[1] * b[2] - a[2] * b[1]>>

Zero3 == <<0, 0, 0>>

\* vec3.length: the meshes of the model only have normals of integer length
Length(a) == CHOOSE n \in 0..Dot(a, a) : n * n = Dot(a, a)

\* vec3.normalize: a zero vector stays zero, any other is divided by its length
Normalize(a) ==
    IF Dot(a, a) > 0
    THEN <<a[1] \div Length(a), a[2] \div Length(a), a[3] \div Length(a)>>
    ELSE a

(***************************************************************************)
(* Numbers stored in a splat                                               *)
(***************************************************************************)
Dyadic(d) == d \in {1, 2, 4, 8, 16}

\* a JavaScript number written as the decimal num/den
F64(n, d) == [num |-> n, den |-> d, fmt |-> IF Dyadic(d) THEN "exact" ELSE "f64"]

\* an element of a Float32Array (vec3.create, mat3.create) holding num/den
F32(n, d) == [num |-> n, den |-> d, fmt |-> IF Dyadic(d) THEN "exact" ELSE "f32"]

\* storing a number into a Float32Array rounds it to the nearest 32-bit float
Fround(x) == IF x.fmt = "exact" THEN x ELSE [x EXCEPT !.fmt = "f32"]

(***************************************************************************)
(* The mesh file: the "v" lines are fixed, the "f" lines are the input     *)
(***************************************************************************)
VertexLines == << <<0, 0, 0>>, <<1, 0, 0>>, <<0, 1, 0>>, <<2, 0, 0>>, <<0, 2, 0>> >>

\* 1-based OBJ index triples: the triangle (0,0,0), (1,0,0), (0,1,0), a
\* triangle of four times its area, a collinear (zero-area) one, and one that
\* names a vertex the file does not have
FaceLines == { <<1, 2, 3>>, <<1, 4, 5>>, <<1, 2, 4>>, <<1, 2, 6>> }

SeqsUpTo(S, n) == UNION { [1..k -> S] : k \in 0..n }

Texts == SeqsUpTo(FaceLines, MaxFaces)

\* parseInt(x) - 1 on each index of an "f" line
ParseFace(line) == <<line[1] - 1, line[2] - 1, line[3] - 1>>

InRange(vertices, k) == (k + 1) \in DOMAIN vertices

FaceInRange(vertices, face) ==
    \A c \in 1..3 : InRange(vertices, face[c])

\* vec3.cross(vec3.sub(t1, t0), vec3.sub(t2, t0)) of a face
FaceCross(vertices, face) ==
    Cross(Sub(vertices[face[2] + 1], vertices[face[1] + 1]),
          Sub(vertices[face[3] + 1], vertices[face[1] + 1]))

\* the normal getBunnyModel pushes for a face
StoredNormal(n) == Normalize(n)

FaceNormal(vertices, face) == StoredNormal(FaceCross(vertices, face))

\* getBunnyModel throws (vec3.sub of undefined) on a face naming a missing vertex
ParseThrows(t) ==
    \E k \in DOMAIN t : ~FaceInRange(VertexLines, ParseFace(t[k]))

getBunnyModel(t) ==
    [vertices |-> VertexLines,
     faces    |-> [k \in DOMAIN t |-> ParseFace(t[k])],
     normals  |-> [k \in DOMAIN t |-> FaceNormal(VertexLines, ParseFace(t[k]))]]

EmptyModel == [vertices |-> <<>>, faces |-> <<>>, normals |-> <<>>]

(***************************************************************************)
(* randomIndexWithProbability                                              *)
(***************************************************************************)
RECURSIVE Reduce(_, _)
\* weights.reduce((sum, w) => sum + w) from position k on
Reduce(weights, k) ==
    IF k > Len(weights) THEN 0 ELSE weights[k] + Reduce(weights, k + 1)

\* reduce of an empty array without initial value throws a TypeError
ReduceThrows(weights) == weights = <<>>

\* the comparison of the scan written as n <= sum
DrawBelowOrEqual(r, total, sum) == r * total <= sum * RandDen

\* n < sum, with n = (r / RandDen) * total
DrawBelow(r, total, sum) == r * total < sum * RandDen

\* what the function returns when the scan ends without a hit
ScanMiss(weights) == -1

RECURSIVE Scan(_, _, _, _)
\* the for loop: k is the 1-based position, sum the running sum before it
Scan(weights, r, k, sum) ==
    IF k > Len(weights) THEN ScanMiss(weights)
    ELSE IF DrawBelow(r, Reduce(weights, 1), sum + weights[k]) THEN k - 1
         ELSE Scan(weights, r, k + 1, sum + weights[k])

randomIndexWithProbability(weights, r) == Scan(weights, r, 1, 0)

(***************************************************************************)
(* generateGaussians                                                       *)
(***************************************************************************)
\* areas = model.normals.map(vec3.length)
Areas(m) == [k \in DOMAIN m.normals |-> Length(m.normals[k])]

\* the loop of generateGaussians running once too often
LoopGuardOffByOne(k, n) == k <= n

LoopGuard(k, n) == k < n

\* the fold reflecting on the diagonal u + v = 1 as well
ReflectsOnDiagonal(ru, rv) == ru + rv >= UDen

\* if (u + v > 1) { u = 1 - u; v = 1 - v }   on numerators over UDen
Reflects(ru, rv) == ru + rv > UDen

Fold(ru, rv) == IF Reflects(ru, rv) THEN <<UDen - ru, UDen - rv>> ELSE <<ru, rv>>

\* numerators over UDen of (1-u-v)*t0 + u*t1 + v*t2
Position(m, face, fu, fv) ==
    Add(Add(Scale(m.vertices[face[1] + 1], UDen - fu - fv),
            Scale(m.vertices[face[2] + 1], fu)),
        Scale(m.vertices[face[3] + 1], fv))

Up == <<0, 1, 0>>

\* mat4.lookAt(eye, center, up): the axes x, y, z of the view frame, each up
\* to its positive normalisation factor; eye is given over UDen
LookAtAxes(eye, center, up) ==
    LET z == Sub(eye, Scale(center, UDen))
        x == Cross(up, z)
        y == Cross(z, x)
    IN  IF z = Zero3
        THEN << <<1, 0, 0>>, <<0, 1, 0>>, <<0, 0, 1>> >>
        ELSE <<x, y, z>>

\* mat3.fromMat4 of the lookAt matrix: element 3c + r is component c of axis r
Rotation(eye, center, up) ==
    LET ax == LookAtAxes(eye, center, up)
    IN  [k \in 1..9 |-> F32(ax[((k - 1) % 3) + 1][((k - 1) \div 3) + 1], 1)]

NewGaussian(m, idx, fu, fv) ==
    LET position == Position(m, m.faces[idx + 1], fu, fv)
    IN  [position |-> [c \in 1..3 |-> F32(position[c], UDen)],
         rotation |-> Rotation(position, m.normals[idx + 1], Up),
         scale    |-> <<F64(1, 1000), F64(1, 1000), F64(1, 1000)>>,
         color    |-> <<F64(9, 10), F64(9, 10), F64(9, 10)>>,
         opacity  |-> F64(1, 10)]

NoDraw == [r |-> -1, u |-> -1, v |-> -1]

\* the locals of generateGaussians before its loop starts
EnterGenerate(m, n) ==
    /\ model' = m
    /\ numGaussians' = n
    /\ areas' = Areas(m)
    /\ i' = 0
    /\ index' = -1
    /\ rnd' = NoDraw
    /\ u' = 0
    /\ v' = 0
    /\ gaussians' = <<>>

\* one iteration of the loop that pushes a splat
GenerateIter ==
    /\ pc = "generate"
    /\ LoopGuard(i, numGaussians)
    /\ ~ReduceThrows(areas)
    /\ \E r \in 0..(RandDen - 1), ru \in 0..(UDen - 1), rv \in 0..(UDen - 1) :
         LET idx == randomIndexWithProbability(areas, r)
             f == Fold(ru, rv)
         IN  /\ idx >= 0
             /\ FaceInRange(model.vertices, model.faces[idx + 1])
             /\ index' = idx
             /\ rnd' = [r |-> r, u |-> ru, v |-> rv]
             /\ u' = f[1]
             /\ v' = f[2]
             /\ gaussians' = Append(gaussians, NewGaussian(model, idx, f[1], f[2]))
             /\ i' = i + 1
    /\ UNCHANGED <<pc, text, model, numGaussians, areas, gaussiansBuffer, queue, ctx>>

\* one iteration of the loop that throws a TypeError: reduce of an empty
\* array, model.faces[-1] undefined (face[0] of undefined), or a vertex of
\* the face undefined (vec3.scale of undefined, after u and v are drawn)
GenerateThrow ==
    /\ pc = "generate"
    /\ LoopGuard(i, numGaussians)
    /\ \/ /\ ReduceThrows(areas)
          /\ UNCHANGED <<index, rnd, u, v>>
       \/ /\ ~ReduceThrows(areas)
          /\ \E r \in 0..(RandDen - 1) :
               /\ randomIndexWithProbability(areas, r) < 0
               /\ index' = randomIndexWithProbability(areas, r)
               /\ rnd' = [NoDraw EXCEPT !.r = r]
          /\ UNCHANGED <<u, v>>
       \/ /\ ~ReduceThrows(areas)
          /\ \E r \in 0..(RandDen - 1), ru \in 0..(UDen - 1), rv \in 0..(UDen - 1) :
               LET idx == randomIndexWithProbability(areas, r)
               IN  /\ idx >= 0
                   /\ ~FaceInRange(model.vertices, model.faces[idx + 1])
                   /\ index' = idx
                   /\ rnd' = [r |-> r, u |-> ru, v |-> rv]
                   /\ u' = Fold(ru, rv)[1]
                   /\ v' = Fold(ru, rv)[2]
    /\ pc' = "threw"
    /\ UNCHANGED <<text, model, numGaussians, areas, i,
                   gaussians, gaussiansBuffer, queue, ctx>>

\* the loop ends and the function returns gaussians; its locals are gone
GenerateReturn ==
    /\ pc = "generate"
    /\ ~LoopGuard(i, numGaussians)
    /\ pc' = "returned"
    /\ index' = -1
    /\ rnd' = NoDraw
    /\ u' = 0
    /\ v' = 0
    /\ UNCHANGED <<text, model, numGaussians, areas, i,
                   gaussians, gaussiansBuffer, queue, ctx>>

(***************************************************************************)
(* uploadGaussiansToGPU and the record the shader reads                    *)
(***************************************************************************)
Padding == F64(0, 1)

\* the packing with the rotation pushed transposed
PackOneTransposed(g) ==
    << g.position[1], g.position[2], g.position[3], F64(0, 1),
       g.rotation[0 + 0 * 3 + 1], g.rotation[0 + 1 * 3 + 1], g.rotation[0 + 2 * 3 + 1], F64(0, 1),
       g.rotation[1 + 0 * 3 + 1], g.rotation[1 + 1 * 3 + 1], g.rotation[1 + 2 * 3 + 1], F64(0, 1),
       g.rotation[2 + 0 * 3 + 1], g.rotation[2 + 1 * 3 + 1], g.rotation[2 + 2 * 3 + 1], F64(0, 1),
       g.scale[1], g.scale[2], g.scale[3], F64(0, 1),
       g.color[1], g.color[2], g.color[3], g.opacity >>

\* the 24 numbers pushed for one splat
PackOne(g) ==
    << g.position[1], g.position[2], g.position[3], Padding,
       g.rotation[0 * 3 + 0 + 1], g.rotation[0 * 3 + 1 + 1], g.rotation[0 * 3 + 2 + 1], Padding,
       g.rotation[1 * 3 + 0 + 1], g.rotation[1 * 3 + 1 + 1], g.rotation[1 * 3 + 2 + 1], Padding,
       g.rotation[2 * 3 + 0 + 1], g.rotation[2 * 3 + 1 + 1], g.rotation[2 * 3 + 2 + 1], Padding,
       g.scale[1], g.scale[2], g.scale[3], Padding,
       g.color[1], g.color[2], g.color[3], g.opacity >>

RECURSIVE PushAll(_, _)
\* gaussians.forEach(g => array.push(...)) from splat k on
PushAll(gs, k) ==
    IF k > Len(gs) THEN <<>> ELSE PackOne(gs[k]) \o PushAll(gs, k + 1)

\* new Float32Array(array)
Float32Array(array) == [k \in DOMAIN array |-> Fround(array[k])]

uploadGaussiansToGPU(gs) == Float32Array(PushAll(gs, 1))

\* struct Gaussian in the shader, in 4-byte floats: a vec3 is aligned to 16
\* bytes, a mat3x3 is three columns of stride 16 bytes
StructFloats == 24

PositionOffset == 0

RotationOffset == 4

ColumnStride == 4

ScaleOffset == 16

ColorOffset == 20

OpacityOffset == 23

\* float at offset off of the 0-based instance inst
At(buffer, inst, off) == buffer[StructFloats * inst + off + 1]

\* gaussians[instance_id] as the shader sees it
ShaderGaussian(buffer, inst) ==
    [position |-> [c \in 1..3 |-> At(buffer, inst, PositionOffset + c - 1)],
     rotation |-> [k \in 1..9 |->
                     At(buffer, inst,
                        RotationOffset + ColumnStride * ((k - 1) \div 3) + ((k - 1) % 3))],
     scale    |-> [c \in 1..3 |-> At(buffer, inst, ScaleOffset + c - 1)],
     color    |-> [c \in 1..3 |-> At(buffer, inst, ColorOffset + c - 1)],
     opacity  |-> At(buffer, inst, OpacityOffset)]

(***************************************************************************)
(* onLoad and onFrame                                                      *)
(***************************************************************************)
WriteBuffer(target, data) == [op |-> "writeBuffer", target |-> target, data |-> data]

\* pass.draw(vertexCount, instanceCount) in the submitted command buffer
Submit(vertexCount, instanceCount) ==
    [op |-> "submit", target |-> "draw", data |-> <<vertexCount, instanceCount>>]

NoCtx == [numOfGaussians |-> 0, et |-> 0, dt |-> 0]

\* what a callback finds: milliseconds since the previous callback, and the
\* clientWidth and clientHeight of the canvas
FrameInputs == { [d |-> 16, size |-> <<2, 1>>], [d |-> 17, size |-> <<1, 1>>] }

Frames == Cardinality({k \in DOMAIN queue : queue[k].op = "submit"})

\* navigator.gpu.requestAdapter / requestDevice: with no device onLoad returns
OnLoadDevice ==
    /\ pc = "onLoad"
    /\ \E device \in BOOLEAN :
         pc' = IF device THEN "getBunnyModel" ELSE "unsupported"
    /\ UNCHANGED <<text, model, numGaussians, areas, i, index, rnd, u, v,
                   gaussians, gaussiansBuffer, queue, ctx>>

\* getBunnyModel resolves and onLoad calls generateGaussians(model, N)
GetBunnyModelResolve ==
    /\ pc = "getBunnyModel"
    /\ ~ParseThrows(text)
    /\ EnterGenerate(getBunnyModel(text), NumGaussians)
    /\ pc' = "generate"
    /\ UNCHANGED <<text, gaussiansBuffer, queue, ctx>>

\* getBunnyModel rejects and so does onLoad
GetBunnyModelReject ==
    /\ pc = "getBunnyModel"
    /\ ParseThrows(text)
    /\ pc' = "rejected"
    /\ UNCHANGED <<text, model, numGaussians, areas, i, index, rnd, u, v,
                   gaussians, gaussiansBuffer, queue, ctx>>

\* uploadGaussiansToGPU(device, gaussians): one writeBuffer on the new buffer
Upload ==
    /\ pc = "returned"
    /\ gaussiansBuffer' = uploadGaussiansToGPU(gaussians)
    /\ queue' = Append(queue, WriteBuffer("gaussiansBuffer", uploadGaussiansToGPU(gaussians)))
    /\ pc' = "uploaded"
    /\ UNCHANGED <<text, model, numGaussians, areas, i, index, rnd, u, v,
                   gaussians, ctx>>

\* the count onLoad puts in the render context
ContextCount(gs) == Len(gs)

\* the rest of onLoad: pipeline, uniform buffers, bind group, and the first
\* requestAnimationFrame, whose callback builds the context with dt = et
OnLoadSchedule ==
    /\ pc = "uploaded"
    /\ ctx' = [numOfGaussians |-> ContextCount(gaussians), et |-> 0, dt |-> 0]
    /\ pc' = "frame"
    /\ UNCHANGED <<text, model, numGaussians, areas, i, index, rnd, u, v,
                   gaussians, gaussiansBuffer, queue>>

\* the next context built afresh instead of spread from the old one
NextCtxWithoutSpread(c, et) == [numOfGaussians |-> 0, et |-> et, dt |-> et - c.et]

\* the context the next callback passes to onFrame: {...ctx, et, dt}
NextCtx(c, et) == [c EXCEPT !.et = et, !.dt = et - c.et]

\* onFrame submitting its commands before it writes the view matrix
FrameOpsSubmitEarly(c, size) ==
    << WriteBuffer("aspectRatioBuffer", size),
       Submit(4, c.numOfGaussians),
       WriteBuffer("cameraViewBuffer", c.et) >>

\* the queue operations of one onFrame call, in program order
FrameOps(c, size) ==
    << WriteBuffer("aspectRatioBuffer", size),
       WriteBuffer("cameraViewBuffer", c.et),
       Submit(4, c.numOfGaussians) >>

\* an animation frame callback fires: onFrame runs to its end
OnFrame ==
    /\ pc = "frame"
    /\ Frames < MaxFrames
    /\ \E f \in FrameInputs :
         /\ ctx' = NextCtx(ctx, ctx.et + f.d)
         /\ queue' = queue \o FrameOps(NextCtx(ctx, ctx.et + f.d), f.size)
    /\ UNCHANGED <<pc, text, model, numGaussians, areas, i, index, rnd, u, v,
                   gaussians, gaussiansBuffer>>

Init ==
    /\ pc = "onLoad"
    /\ text \in Texts
    /\ model = EmptyModel
    /\ numGaussians = 0
    /\ areas = <<>>
    /\ i = 0
    /\ index = -1
    /\ rnd = NoDraw
    /\ u = 0
    /\ v = 0
    /\ gaussians = <<>>
    /\ gaussiansBuffer = <<>>
    /\ queue = <<>>
    /\ ctx = NoCtx

Next ==
    \/ OnLoadDevice
    \/ GetBunnyModelResolve
    \/ GetBunnyModelReject
    \/ GenerateIter
    \/ GenerateThrow
    \/ GenerateReturn
    \/ Upload
    \/ OnLoadSchedule
    \/ OnFrame

Spec == Init /\ [][Next]_vars

(***************************************************************************)
(* generateGaussians on its own: any model, any count                      *)
(***************************************************************************)
\* a model as another loader could hand it over: normals normalised or not,
\* and a placeholder normal for a face whose vertices are missing
LooseNormal(face, raw) ==
    IF ~FaceInRange(VertexLines, face) THEN <<0, 0, 1>>
    ELSE IF raw THEN FaceCross(VertexLines, face)
    ELSE FaceNormal(VertexLines, face)

LooseModel(t, raw) ==
    [vertices |-> VertexLines,
     faces    |-> [k \in DOMAIN t |-> ParseFace(t[k])],
     normals  |-> [k \in DOMAIN t |-> LooseNormal(ParseFace(t[k]), raw)]]

InitSampler ==
    /\ pc = "generate"
    /\ text = <<>>
    /\ \E t \in Texts, raw \in BOOLEAN, n \in 0..NumGaussians :
         /\ model = LooseModel(t, raw)
         /\ numGaussians = n
         /\ areas = Areas(LooseModel(t, raw))
    /\ i = 0
    /\ index = -1
    /\ rnd = NoDraw
    /\ u = 0
    /\ v = 0
    /\ gaussians = <<>>
    /\ gaussiansBuffer = <<>>
    /\ queue = <<>>
    /\ ctx = NoCtx

NextSampler ==
    \/ GenerateIter
    \/ GenerateThrow
    \/ GenerateReturn

SpecSampler == InitSampler /\ [][NextSampler]_vars

(***************************************************************************)
(* uploadGaussiansToGPU on its own: any sequence of splats                 *)
(***************************************************************************)
MaxSplats == 2

TwoFaces == getBunnyModel(<< <<1, 2, 3>>, <<1, 4, 5>> >>)

\* a splat whose 19 stored numbers are pairwise different
DistinctSplat(k) ==
    [position |-> [c \in 1..3 |-> F32(10 * k + c, UDen)],
     rotation |-> [c \in 1..9 |-> F32(20 * k + c, 1)],
     scale    |-> [c \in 1..3 |-> F64(k + c, 1000)],
     color    |-> [c \in 1..3 |-> F64(k + c, 10)],
     opacity  |-> F64(k, 100)]

\* splats the sampler makes, and splats with all their numbers different
SplatPool ==
    { NewGaussian(TwoFaces, f, fu, fv) : f \in 0..1, fu \in {0, 1}, fv \in {0, 2} }
      \cup { DistinctSplat(k) : k \in 1..2 }

InitUpload ==
    /\ pc = "returned"
    /\ text = <<>>
    /\ model = EmptyModel
    /\ numGaussians = 0
    /\ areas = <<>>
    /\ i = 0
    /\ index = -1
    /\ rnd = NoDraw
    /\ u = 0
    /\ v = 0
    /\ gaussians \in SeqsUpTo(SplatPool, MaxSplats)
    /\ gaussiansBuffer = <<>>
    /\ queue = <<>>
    /\ ctx = NoCtx

NextUpload == Upload

SpecUpload == InitUpload /\ [][NextUpload]_vars

(***************************************************************************)
(* randomIndexWithProbability on its own: any list of weights              *)
(***************************************************************************)
WeightLists == SeqsUpTo(0..MaxWeight, MaxFaces + 1)

InitRandomIndex ==
    /\ pc = "randomIndex"
    /\ text = <<>>
    /\ model = EmptyModel
    /\ numGaussians = 0
    /\ areas \in WeightLists
    /\ i = 0
    /\ index = -1
    /\ rnd = NoDraw
    /\ u = 0
    /\ v = 0
    /\ gaussians = <<>>
    /\ gaussiansBuffer = <<>>
    /\ queue = <<>>
    /\ ctx = NoCtx

CallRandomIndex ==
    /\ pc = "randomIndex"
    /\ ~ReduceThrows(areas)
    /\ \E r \in 0..(RandDen - 1) :
         /\ index' = randomIndexWithProbability(areas, r)
         /\ rnd' = [NoDraw EXCEPT !.r = r]
    /\ pc' = "indexed"
    /\ UNCHANGED <<text, model, numGaussians, areas, i, u, v,
                   gaussians, gaussiansBuffer, queue, ctx>>

CallRandomIndexThrow ==
    /\ pc = "randomIndex"
    /\ ReduceThrows(areas)
    /\ pc' = "threw"
    /\ UNCHANGED <<text, model, numGaussians, areas, i, index, rnd, u, v,
                   gaussians, gaussiansBuffer, queue, ctx>>

NextRandomIndex ==
    \/ CallRandomIndex
    \/ CallRandomIndexThrow

SpecRandomIndex == InitRandomIndex /\ [][NextRandomIndex]_vars

(***************************************************************************)
(* Properties                                                              *)
(***************************************************************************)
Total == Reduce(areas, 1)

\* w[1] + ... + w[k]
PrefixSum(w, k) == Reduce(SubSeq(w, 1, k), 1)

Finished == pc \in {"returned", "threw"}

\* every face names existing vertices and the weights have a positive total
WellFormed ==
    /\ Len(model.faces) >= 1
    /\ \A k \in DOMAIN model.faces : FaceInRange(model.vertices, model.faces[k])
    /\ Total > 0

\* a face index out of range, zero faces, or weights that sum to zero
Malformed ==
    \/ Len(model.faces) = 0
    \/ \E k \in DOMAIN model.faces : ~FaceInRange(model.vertices, model.faces[k])
    \/ Total = 0

\* C1 as stated: for every model with at least one face and every count N,
\* generateGaussians ends by returning exactly N splats.
C1_ExactlyNForAnyMesh ==
    (Len(model.faces) >= 1 /\ Finished) =>
        (pc = "returned" /\ Len(gaussians) = numGaussians)

\* C1 amended: for every model whose faces name existing vertices and whose
\* weights have a positive total, generateGaussians never throws, never holds
\* more than N splats, and returns exactly N splats, whatever the draws.
C1_ExactlyNForWellFormedMesh ==
    (pc \in {"generate", "returned", "threw"} /\ WellFormed) =>
        /\ pc # "threw"
        /\ Len(gaussians) = i
        /\ Len(gaussians) <= numGaussians
        /\ (pc = "returned" => Len(gaussians) = numGaussians)

C1_Witness ==
    /\ pc = "returned"
    /\ WellFormed
    /\ numGaussians >= 1
    /\ Len(gaussians) = numGaussians

\* C2: the weight of a face in the weighted draw is proportional to the
\* face's area, i.e. to the magnitude of the cross product of its edges: for
\* any two faces the weights are in the ratio of the areas.
C2_WeightProportionalToArea ==
    pc = "generate" =>
        \A k \in DOMAIN areas, l \in DOMAIN areas :
            areas[k] * Length(FaceCross(model.vertices, model.faces[l]))
                = areas[l] * Length(FaceCross(model.vertices, model.faces[k]))

\* the stored fields of a splat, each as storing it in 32-bit floats leaves it
RoundedSplat(g) ==
    [position |-> [c \in 1..3 |-> Fround(g.position[c])],
     rotation |-> [k \in 1..9 |-> Fround(g.rotation[k])],
     scale    |-> [c \in 1..3 |-> Fround(g.scale[c])],
     color    |-> [c \in 1..3 |-> Fround(g.color[c])],
     opacity  |-> Fround(g.opacity)]

\* the splat read from the offsets the layout gives for instance inst
ReadAtOffsets(buffer, inst) ==
    [position |-> [c \in 1..3 |-> At(buffer, inst, c - 1)],
     rotation |-> [k \in 1..9 |->
                     At(buffer, inst, 4 + 4 * ((k - 1) \div 3) + ((k - 1) % 3))],
     scale    |-> [c \in 1..3 |-> At(buffer, inst, 16 + c - 1)],
     color    |-> [c \in 1..3 |-> At(buffer, inst, 20 + c - 1)],
     opacity  |-> At(buffer, inst, 23)]

LayoutHolds ==
    /\ Len(gaussiansBuffer) = 24 * Len(gaussians)
    /\ \A inst \in 0..(Len(gaussians) - 1) :
         \A off \in {3, 7, 11, 15, 19} : At(gaussiansBuffer, inst, off) = Padding

Submits == {k \in DOMAIN queue : queue[k].op = "submit"}

\* C4: every draw call issued by a frame has 4 vertices per instance and as
\* many instances as generateGaussians returned splats at load time, and the
\* count in the render context never changes.
C4_DrawCountIsSplatCount ==
    /\ \A k \in Submits : queue[k].data = <<4, Len(gaussians)>>
    /\ pc = "frame" => ctx.numOfGaussians = Len(gaussians)

C4_Witness ==
    /\ Cardinality(Submits) >= 2
    /\ Len(gaussians) >= 1

\* C5: given a malformed model (a face index out of range, zero faces, or
\* weights that sum to zero) generateGaussians never returns a splat sequence.
C5_MalformedNeverReturns ==
    (pc \in {"generate", "returned", "threw"} /\ Malformed) => pc # "returned"

\* the draws of the last iteration have been made
Drawn == rnd.u >= 0 /\ rnd.v >= 0

\* C6: the fold reflects (u, v) to (1-u, 1-v) exactly when u + v > 1, and then
\* the coefficients 1-u-v, u, v are each in [0, 1] and sum to 1; the position
\* pushed is that combination of the face's vertices.
C6_FoldKeepsCoefficientsConvex ==
    Drawn =>
        /\ rnd.u + rnd.v > UDen => (u = UDen - rnd.u /\ v = UDen - rnd.v)
        /\ rnd.u + rnd.v <= UDen => (u = rnd.u /\ v = rnd.v)
        /\ (UDen - u - v) \in 0..UDen
        /\ u \in 0..UDen
        /\ v \in 0..UDen
        /\ (UDen - u - v) + u + v = UDen
        /\ pc = "generate" =>
             LET face == model.faces[index + 1]
                 p == gaussians[Len(gaussians)].position
             IN  \A c \in 1..3 :
                   p[c].num = (UDen - u - v) * model.vertices[face[1] + 1][c]
                                + u * model.vertices[face[2] + 1][c]
                                + v * model.vertices[face[3] + 1][c]

C6_Witness ==
    /\ pc = "generate"
    /\ Drawn
    /\ rnd.u + rnd.v > UDen
    /\ Len(gaussians) >= 1

\* C7: when the draw is not less than the total of all weights,
\* randomIndexWithProbability returns the index of the last face.
C7_LastFaceAtBoundary ==
    (pc = "indexed" /\ ~DrawBelow(rnd.r, Total, Total)) => index = Len(areas) - 1

\* C8: for weights with a positive total, randomIndexWithProbability returns
\* the smallest index whose cumulative weight exceeds the draw; it is a valid
\* index and never a face of weight zero.
C8_FirstIndexAboveDraw ==
    (pc = "indexed" /\ Total > 0) =>
        /\ index \in 0..(Len(areas) - 1)
        /\ rnd.r * Total < PrefixSum(areas, index + 1) * RandDen
        /\ \A j \in 0..(index - 1) :
             ~(rnd.r * Total < PrefixSum(areas, j + 1) * RandDen)
        /\ areas[index + 1] > 0

C8_Witness ==
    /\ pc = "indexed"
    /\ Total > 0
    /\ index >= 1
    /\ areas[1] = 0
    /\ rnd.r >= 1

IsWrite(k, target) == queue[k].op = "writeBuffer" /\ queue[k].target = target

\* the queue positions of the frame that ends with the submit at position k
FrameOf(k) ==
    {j \in 1..(k - 1) : \A s \in Submits : s < k => s < j}

\* C9: the splat buffer is written exactly once, at load time before the
\* first frame is scheduled, and by no frame; every frame writes each camera
\* uniform exactly once and before it submits its draw commands.
C9_WriteOnceThenPerFrameUniforms ==
    /\ pc \in {"uploaded", "frame"} => (queue # <<>> /\ IsWrite(1, "gaussiansBuffer"))
    /\ pc \notin {"uploaded", "frame"} => queue = <<>>
    /\ \A k \in DOMAIN queue : IsWrite(k, "gaussiansBuffer") => k = 1
    /\ \A k \in Submits :
         /\ Cardinality({j \in FrameOf(k) : IsWrite(j, "aspectRatioBuffer")}) = 1
         /\ Cardinality({j \in FrameOf(k) : IsWrite(j, "cameraViewBuffer")}) = 1
    /\ \A j \in DOMAIN queue :
         (IsWrite(j, "aspectRatioBuffer") \/ IsWrite(j, "cameraViewBuffer")) =>
             \E k \in Submits : j \in FrameOf(k)

C9_Witness ==
    /\ pc = "frame"
    /\ Cardinality(Submits) >= 2

\* the z axis of the lookAt frame: elements 2, 5, 8 of the rotation
ForwardAxis(g) == <<g.rotation[3].num, g.rotation[6].num, g.rotation[9].num>>

\* the third triple of the rotation: elements 6, 7, 8
ThirdTriple(g) == <<g.rotation[7].num, g.rotation[8].num, g.rotation[9].num>>

\* C10: the forward (third) axis of the rotation of every splat is parallel
\* to the normal of the face it was sampled from, wherever its position falls.
C10_ForwardAxisIsFaceNormal ==
    (pc = "generate" /\ index >= 0 /\ Len(gaussians) >= 1) =>
        \/ Cross(ForwardAxis(gaussians[Len(gaussians)]), model.normals[index + 1]) = Zero3
        \/ Cross(ThirdTriple(gaussians[Len(gaussians)]), model.normals[index + 1]) = Zero3

====
